---------------------------- MODULE Spec2Model ----------------------------
(***************************************************************************)
(* Model of src/app.py: the DocumentConverter class (convert_document, the *)
(* per-extension routines and their strategy lists, process_zip_folder)    *)
(* and the two Streamlit batch handlers process_uploaded_files and         *)
(* process_zip_file.                                                       *)
(*                                                                         *)
(* External collaborators (pandoc, wkhtmltopdf, catdoc, strings, the       *)
(* online service, python-docx) are the environment: every call draws its  *)
(* outcome from the set of outcomes the call site distinguishes.           *)
(***************************************************************************)
EXTENDS Integers, Sequences, FiniteSets, TLC

(***************************************************************************)
(* Bounds of the model.                                                    *)
(***************************************************************************)
\* largest number of files in one upload batch
MaxFiles == 2
\* largest number of entries in one uploaded archive
MaxEntries == 2

(***************************************************************************)
(* Program constants and path helpers.                                     *)
(***************************************************************************)
\* DocumentConverter.max_file_size
max_file_size == 200 * 1024 * 1024

\* keys of DocumentConverter.supported_formats
supported_formats == {".doc", ".docx", ".rtf", ".txt", ".odt"}

\* file-name suffixes the inputs are drawn from (any case, unsupported, none)
Suffixes == {".docx", ".doc", ".rtf", ".txt", ".odt", ".TXT", ".Doc", ".md", ""}

\* str.lower() on a suffix
lower(s) ==
  CASE s = ".TXT" -> ".txt"
    [] s = ".Doc" -> ".doc"
    [] OTHER -> s

\* a path is a directory, a stem and a suffix; NoPath is the empty string ""
NoPath == [dir |-> "", stem |-> "", ext |-> ""]

\* Path(dir) / name
JoinPath(dir, name) == [dir |-> dir, stem |-> name.stem, ext |-> name.ext]

\* f"{stem}.pdf"
PdfName(stem) == [stem |-> stem, ext |-> ".pdf"]

\* Path.name of a path
NameOf(p) == [stem |-> p.stem, ext |-> p.ext]

\* byte sizes the inputs are drawn from: empty, exactly the cap, one above it
Sizes == {0, max_file_size, max_file_size + 1}

(***************************************************************************)
(* The file system: a function from the existing paths to their content.   *)
(* A content records which input it is, or was produced for (data), what   *)
(* wrote it (via) and its size in bytes (for produced files: 0 = empty,    *)
(* 1 = non-empty).                                                         *)
(***************************************************************************)
Exists(fs, p) == p \in DOMAIN fs

WriteFile(fs, p, c) == (p :> c) @@ fs

Unlink(fs, p) == [q \in (DOMAIN fs) \ {p} |-> fs[q]]

\* shutil/tempfile cleanup of a whole directory tree
RemoveTree(fs, dirs) == [q \in {p \in DOMAIN fs : p.dir \notin dirs} |-> fs[q]]

(***************************************************************************)
(* Outcomes of one subprocess.run(..., timeout=30) of a rendering tool:    *)
(* TimeoutExpired (the tool is killed), another exception (the tool could  *)
(* not be started, or its captured output could not be decoded as text     *)
(* after it ran), or a completed run with a return code. A tool wrote      *)
(* nothing, an empty file or a full one before it ended, whatever its end  *)
(* was; the code never removes what it wrote.                              *)
(***************************************************************************)
ProcRuns ==
  [kind : {"timeout", "raise"}, rc : {1}, wrote : {"none", "empty", "full"}]
    \cup [kind : {"done"}, rc : {0, 1}, wrote : {"none", "empty", "full"}]

\* the file system after a tool run r asked to produce `out` from `data`
AfterRun(fs, r, out, data, via) ==
  IF r.wrote = "none" THEN fs
  ELSE WriteFile(fs, out, [data |-> data, via |-> via,
                           bytes |-> IF r.wrote = "full" THEN 1 ELSE 0])

\* how a run of an external tool ended, as the strategies tell it apart
RunKind(r) ==
  CASE r.kind = "timeout" -> "timeout"
    [] r.kind = "raise" -> "raise"
    [] r.rc # 0 -> "nonzero"
    [] OTHER -> "zero"

\* an outcome of a strategy: its (success, message), the state it leaves,
\* how the rendering tool it ran ended ("none": it ran none), and how the
\* text-extraction tools it ran ended, in the order they were run
OutcomeAfter(tools, ok, msg, fs, html, run) ==
  [ok |-> ok, msg |-> msg, fs |-> fs, html |-> html, run |-> run, tools |-> tools]

\* an outcome of a strategy that runs no text-extraction tool
Outcome(ok, msg, fs, html, run) == OutcomeAfter(<<>>, ok, msg, fs, html, run)

(***************************************************************************)
(* _create_enhanced_pdf: writes the HTML to a NamedTemporaryFile           *)
(* (delete=False), runs wkhtmltopdf on it, unlinks the HTML after the run  *)
(* returned, and answers returncode == 0 and output_path.exists(). An      *)
(* exception of the run skips the unlink. An exception before the run      *)
(* (NamedTemporaryFile raises, or f.write raises and the file it created   *)
(* stays) answers False with no tool run. After a completed run            *)
(* os.unlink(html_path) can raise, which answers False with the HTML left, *)
(* and so can output_path.exists(), which answers False with the HTML      *)
(* gone. html counts the temporary HTML files left on disk. The result is  *)
(* a set of [ok, fs, html, run].                                           *)
(***************************************************************************)
_create_enhanced_pdf(fs, html, out, data, via) ==
  {[ok |-> FALSE, fs |-> fs, html |-> h, run |-> "none"] : h \in {html, html + 1}}
  \cup
  {[ok |-> FALSE, fs |-> AfterRun(fs, r, out, data, via), html |-> h,
    run |-> RunKind(r)]
   : r \in {q \in ProcRuns : q.kind = "done"}, h \in {html, html + 1}}
  \cup
  {IF r.kind \in {"timeout", "raise"}
     THEN [ok |-> FALSE, fs |-> AfterRun(fs, r, out, data, via), html |-> html + 1,
           run |-> RunKind(r)]
     ELSE [ok |-> r.rc = 0 /\ Exists(AfterRun(fs, r, out, data, via), out),
           fs |-> AfterRun(fs, r, out, data, via), html |-> html,
           run |-> RunKind(r)]
   : r \in ProcRuns}

\* a Pandoc strategy that takes return code 0 for success without looking
\* for the output file
_convert_with_pandoc_wkhtml_rc_only(fs, html, in, out) ==
  {LET fs2 == AfterRun(fs, r, out, fs[in].data, "pandoc")
   IN  CASE r.kind = "timeout" ->
              Outcome(FALSE, "Timeout en conversión con Pandoc", fs2, html, RunKind(r))
         [] r.kind = "raise" ->
              Outcome(FALSE, "Error con Pandoc", fs2, html, RunKind(r))
         [] r.kind = "done" /\ r.rc = 0 ->
              Outcome(TRUE, "Conversión exitosa con Pandoc", fs2, html, RunKind(r))
         [] OTHER ->
              Outcome(FALSE, "Pandoc error", fs2, html, RunKind(r))
   : r \in ProcRuns}
  \cup
  {Outcome(FALSE, "Error con Pandoc", AfterRun(fs, r, out, fs[in].data, "pandoc"),
           html, RunKind(r))
   : r \in {q \in ProcRuns : q.kind = "done" /\ q.rc = 0}}

(***************************************************************************)
(* The conversion strategies. Each maps (input_path, output_path) and the  *)
(* state to the set of outcomes it can have. In the Pandoc strategy        *)
(* output_path.exists() can raise after pandoc exited 0, which the         *)
(* `except Exception` turns into "Error con Pandoc".                       *)
(***************************************************************************)
_convert_with_pandoc_wkhtml(fs, html, in, out) ==
  {LET fs2 == AfterRun(fs, r, out, fs[in].data, "pandoc")
   IN  CASE r.kind = "timeout" ->
              Outcome(FALSE, "Timeout en conversión con Pandoc", fs2, html, RunKind(r))
         [] r.kind = "raise" ->
              Outcome(FALSE, "Error con Pandoc", fs2, html, RunKind(r))
         [] r.kind = "done" /\ r.rc = 0 /\ Exists(fs2, out) ->
              Outcome(TRUE, "Conversión exitosa con Pandoc", fs2, html, RunKind(r))
         [] OTHER ->
              Outcome(FALSE, "Pandoc error", fs2, html, RunKind(r))
   : r \in ProcRuns}
  \cup
  {Outcome(FALSE, "Error con Pandoc", AfterRun(fs, r, out, fs[in].data, "pandoc"),
           html, RunKind(r))
   : r \in {q \in ProcRuns : q.kind = "done" /\ q.rc = 0}}

\* Document(input_path) raises, or yields no text, or the text is rendered
_convert_with_python_docx(fs, html, in, out) ==
  {Outcome(FALSE, "Error con python-docx", fs, html, "none"),
   Outcome(FALSE, "No se pudo extraer texto del documento", fs, html, "none")}
  \cup
  {Outcome(c.ok,
           IF c.ok THEN "Conversión mejorada exitosa con python-docx"
                   ELSE "No se pudo crear PDF desde el texto extraído",
           c.fs, c.html, c.run)
   : c \in _create_enhanced_pdf(fs, html, out, fs[in].data, "python_docx")}

\* requests.post raises, answers another status, or answers 200 with a body
\* (empty or not) that is written to output_path; when that write raises,
\* open(output_path, 'wb') has already left a file, empty or with the part
\* of the body that was written
_convert_doc_with_online_service(fs, html, in, out) ==
  {Outcome(FALSE, "Error con servicio online", fs, html, "none"),
   Outcome(FALSE, "Servicio online no disponible", fs, html, "none")}
  \cup
  {Outcome(FALSE, "Error con servicio online",
           WriteFile(fs, out, [data |-> fs[in].data, via |-> "online", bytes |-> b]),
           html, "none")
   : b \in {0, 1}}
  \cup
  {Outcome(TRUE, "Conversión exitosa con servicio online",
           WriteFile(fs, out, [data |-> fs[in].data, via |-> "online", bytes |-> b]),
           html, "none")
   : b \in {0, 1}}

\* how a subprocess.run(..., timeout=30) of catdoc or strings ended:
\* TimeoutExpired, another exception, a nonzero or a zero return code
ExtractRuns == {"timeout", "raise", "nonzero", "zero"}

\* _extract_with_catdoc, then, when it gave no text, _extract_text_advanced:
\* catdoc gives text only when it exits 0; else the file is read (which can
\* raise: no text) and scanned, and when the scan finds no text strings is
\* run, which gives text only when it exits 0. Every exception is caught
\* inside the extractor. tools: how the tools that were run ended
TextExtractions ==
  {[tools |-> <<"zero">>, text |-> TRUE]}
    \cup [tools : {<<c>> : c \in ExtractRuns}, text : BOOLEAN]
    \cup [tools : {<<c, s>> : c, s \in ExtractRuns}, text : {FALSE}]
    \cup [tools : {<<c, "zero">> : c \in ExtractRuns}, text : {TRUE}]

\* catdoc, then the binary scan, then strings; the text, if any, is rendered
\* by _create_enhanced_pdf
_convert_doc_with_advanced_text_extraction(fs, html, in, out) ==
  {OutcomeAfter(x.tools, FALSE, "No se pudo extraer texto avanzado del archivo DOC",
                fs, html, "none")
   : x \in {y \in TextExtractions : ~y.text}}
  \cup
  {OutcomeAfter(x.tools, c.ok,
                IF c.ok THEN "Conversión mejorada exitosa (texto avanzado)"
                        ELSE "No se pudo extraer texto avanzado del archivo DOC",
                c.fs, c.html, c.run)
   : x \in {y \in TextExtractions : y.text},
     c \in _create_enhanced_pdf(fs, html, out, fs[in].data, "text_extraction")}

_convert_doc_with_python_docx_fallback(fs, html, in, out) ==
  {Outcome(FALSE, "Error leyendo DOC", fs, html, "none"),
   Outcome(FALSE, "No se pudo leer el archivo DOC con python-docx", fs, html, "none")}
  \cup
  {Outcome(c.ok,
           IF c.ok THEN "Conversión básica exitosa (DOC leído como DOCX)"
                   ELSE "No se pudo leer el archivo DOC con python-docx",
           c.fs, c.html, c.run)
   : c \in _create_enhanced_pdf(fs, html, out, fs[in].data, "python_docx_fallback")}

\* the success message of _convert_doc_with_fallback
InformationalMessage ==
  "PDF informativo creado - se requiere herramienta externa para conversión completa"

\* the informational document: produced for the input, carrying none of its text
_convert_doc_with_fallback(fs, html, in, out) ==
  {Outcome(c.ok,
           IF c.ok THEN InformationalMessage
                   ELSE "No se pudo crear PDF informativo",
           c.fs, c.html, c.run)
   : c \in _create_enhanced_pdf(fs, html, out, fs[in].data, "fallback")}

\* method(input_path, output_path) for a method of a strategy list
Invoke(method, fs, html, in, out) ==
  CASE method = "_convert_with_pandoc_wkhtml" ->
         _convert_with_pandoc_wkhtml(fs, html, in, out)
    [] method = "_convert_with_python_docx" ->
         _convert_with_python_docx(fs, html, in, out)
    [] method = "_convert_doc_with_online_service" ->
         _convert_doc_with_online_service(fs, html, in, out)
    [] method = "_convert_doc_with_advanced_text_extraction" ->
         _convert_doc_with_advanced_text_extraction(fs, html, in, out)
    [] method = "_convert_doc_with_python_docx_fallback" ->
         _convert_doc_with_python_docx_fallback(fs, html, in, out)
    [] method = "_convert_doc_with_fallback" ->
         _convert_doc_with_fallback(fs, html, in, out)

(***************************************************************************)
(* The extension routines: the routine convert_document selects for a      *)
(* lower-cased suffix, the ordered list of methods the routine tries, and  *)
(* what it returns once every method has failed.                           *)
(***************************************************************************)
\* an if/elif chain whose else branch converts instead of rejecting
RoutineOf_no_else(extension) ==
  CASE extension = ".docx" -> "_convert_docx"
    [] extension = ".doc" -> "_convert_doc_enhanced"
    [] extension = ".rtf" -> "_convert_rtf"
    [] extension = ".odt" -> "_convert_odt"
    [] OTHER -> "_convert_txt"

RoutineOf(extension) ==
  CASE extension = ".docx" -> "_convert_docx"
    [] extension = ".doc" -> "_convert_doc_enhanced"
    [] extension = ".rtf" -> "_convert_rtf"
    [] extension = ".txt" -> "_convert_txt"
    [] extension = ".odt" -> "_convert_odt"
    [] OTHER -> "none"

_convert_docx == <<"_convert_with_pandoc_wkhtml", "_convert_with_python_docx">>

\* a list that tries the informational fallback before the strategies that
\* carry the document's content
_convert_doc_enhanced_fallback_first ==
  <<"_convert_doc_with_fallback",
    "_convert_doc_with_online_service",
    "_convert_doc_with_advanced_text_extraction",
    "_convert_doc_with_python_docx_fallback">>

_convert_doc_enhanced ==
  <<"_convert_doc_with_online_service",
    "_convert_doc_with_advanced_text_extraction",
    "_convert_doc_with_python_docx_fallback",
    "_convert_doc_with_fallback">>

_convert_rtf == <<"_convert_with_pandoc_wkhtml">>

_convert_txt == <<"_convert_with_pandoc_wkhtml">>

_convert_odt == <<"_convert_with_pandoc_wkhtml">>

MethodsOf(routine) ==
  CASE routine = "_convert_docx" -> _convert_docx
    [] routine = "_convert_doc_enhanced" -> _convert_doc_enhanced
    [] routine = "_convert_rtf" -> _convert_rtf
    [] routine = "_convert_txt" -> _convert_txt
    [] routine = "_convert_odt" -> _convert_odt
    [] OTHER -> <<>>

\* a loop that returns after its first method, whatever the method returned
StopsAt_always(success) == TRUE

\* a loop that never leaves early
StopsAt_never(success) == FALSE

\* the loop of a routine leaves at the first success
StopsAt(success) == success

\* routines that all hand the last method's message through
ExhaustedMessage_last(routine, last) == last

\* the message of a routine whose methods all failed; last is the message of
\* the last method (the single-method routines return it unchanged)
ExhaustedMessage(routine, last) ==
  CASE routine = "_convert_docx" -> "Todos los métodos de conversión fallaron"
    [] routine = "_convert_doc_enhanced" ->
         "No se pudo convertir el archivo DOC. Intente guardarlo como DOCX."
    [] OTHER -> last

\* not input_path.exists()
input_missing(fs, p) == ~Exists(fs, p)

\* a size guard that also rejects a file of exactly the cap
TooLarge_ge(size) == size >= max_file_size

\* input_path.stat().st_size > self.max_file_size
TooLarge(size) == size > max_file_size

\* a download section that bundles whenever anything succeeded
upload_download_controls_zip(n) == IF n > 0 THEN {"bundle"} ELSE {}

\* the download controls process_uploaded_files shows for a success count
upload_download_controls(n) ==
  IF n > 0 THEN (IF n = 1 THEN {"single"} ELSE {"bundle"}) ELSE {}

\* the download controls process_zip_file shows for a success count
zip_download_controls(n) == IF n > 0 THEN {"bundle"} ELSE {}

\* an output path that is always put next to the input
OutputPathFor_next_to_input(in, requested) == JoinPath(in.dir, PdfName(in.stem))

\* output_path of convert_document: the requested one, or <parent>/<stem>.pdf
OutputPathFor(in, requested) ==
  IF requested = NoPath THEN JoinPath(in.dir, PdfName(in.stem)) ELSE requested


(***************************************************************************)
(* Inputs of the handlers.                                                 *)
(***************************************************************************)
\* the file given to a direct call of convert_document, and a requested output
DirectInput(ext) == [dir |-> "in", stem |-> "a", ext |-> ext]

RequestedOutputs == {NoPath, [dir |-> "out", stem |-> "r", ext |-> ".pdf"]}

\* names of the files of an upload batch: two share a stem, one is a legacy
\* document (st.file_uploader takes only files whose suffix is one of
\* supported_formats)
UploadNames ==
  {[stem |-> "a", ext |-> ".docx"], [stem |-> "a", ext |-> ".txt"],
   [stem |-> "b", ext |-> ".doc"]}

\* an uploaded file: UploadedFile.name and the size of UploadedFile.getvalue()
UploadInputs == [name : UploadNames, size : {max_file_size, max_file_size + 1}]

\* the sequences of at most n elements of S, the empty one excluded
SeqsUpTo(S, n) == UNION {[1..k -> S] : k \in 1..n}

\* the upload batches: at most MaxFiles files, no two of the same name
UploadBatches ==
  {files \in SeqsUpTo(UploadInputs, MaxFiles) :
     \A j, k \in 1..Len(files) : files[j].name = files[k].name => j = k}

(***************************************************************************)
(* State.                                                                  *)
(***************************************************************************)
VARIABLES
  pc,                     \* position of the running handler
  fs,                     \* the file system
  html,                   \* temporary HTML files of _create_enhanced_pdf on disk
  cd_pc,                  \* position inside convert_document
  cd_in,                  \* convert_document: input_path
  cd_req,                 \* convert_document: the output_path argument
  cd_out,                 \* convert_document: output_path once resolved
  cd_routine,             \* the extension routine selected
  cd_k,                   \* index of the next method of the routine's list
  cd_ops,                 \* what the call did so far, in order (in full for
                          \* the latest step, as `success, message` hold it)
  cd_res,                 \* the tuple convert_document returns
  cd_log,                 \* the calls of convert_document that ended, in order
  uploaded_files,         \* process_uploaded_files: uploaded_files
  i,                      \* process_uploaded_files: loop index (from 1)
  successful_conversions, \* process_uploaded_files: successful_conversions
  converted_files,        \* converted_files of either batch handler
  conversion_results,     \* process_uploaded_files: conversion_results
  conversion_history,     \* st.session_state.conversion_history
  downloads,              \* the download controls shown
  signal,                 \* the final st.success / st.error of the batch
  offered,                \* the files behind the download control, in order
  archive,                \* the entries of the uploaded archive
  recurse,                \* the user's "recurse into subdirectories" choice
  walk,                   \* process_zip_folder: paths rglob has yet to yield
  results,                \* process_zip_folder: the results dict, in key order
  output_dir,             \* process_zip_folder: output_dir ("" is None)
  runs,                   \* script runs of the session that ended so far
  shown                   \* the entries the history tab displays, top first

cdvars == <<cd_pc, cd_in, cd_req, cd_out, cd_routine, cd_k, cd_ops, cd_res>>

upvars == <<uploaded_files, i, successful_conversions, conversion_results,
            conversion_history>>

uivars == <<converted_files, downloads, signal, offered>>

zipvars == <<archive, recurse, walk, results, output_dir>>

sessvars == <<runs, shown>>

NoResult == <<FALSE, "", NoPath>>

Init ==
  /\ pc = "idle"
  /\ fs = <<>>
  /\ html = 0
  /\ cd_pc = "none"
  /\ cd_in = NoPath
  /\ cd_req = NoPath
  /\ cd_out = NoPath
  /\ cd_routine = "none"
  /\ cd_k = 0
  /\ cd_ops = <<>>
  /\ cd_res = NoResult
  /\ cd_log = <<>>
  /\ uploaded_files = <<>>
  /\ i = 0
  /\ successful_conversions = 0
  /\ converted_files = <<>>
  /\ conversion_results = <<>>
  /\ conversion_history = <<>>
  /\ downloads = {}
  /\ signal = "none"
  /\ offered = <<>>
  /\ archive = {}
  /\ recurse = TRUE
  /\ walk = {}
  /\ results = <<>>
  /\ output_dir = ""
  /\ runs = 0
  /\ shown = <<>>

(***************************************************************************)
(* convert_document, step by step. Call(in, req) is the call itself.       *)
(***************************************************************************)
Call(in, req) ==
  /\ cd_pc' = "exists"
  /\ cd_in' = in
  /\ cd_req' = req
  /\ cd_out' = NoPath
  /\ cd_routine' = "none"
  /\ cd_k' = 0
  /\ cd_ops' = <<>>
  /\ cd_res' = NoResult

\* the caller has taken what convert_document returned or raised: the call
\* is over and its locals are gone
EndCall ==
  /\ cd_pc' = "none"
  /\ cd_in' = NoPath
  /\ cd_req' = NoPath
  /\ cd_out' = NoPath
  /\ cd_routine' = "none"
  /\ cd_k' = 0
  /\ cd_ops' = <<>>
  /\ cd_res' = NoResult

\* an entry of cd_ops: what was done, whether it passed, its message
Op(op, ok, msg) == [op |-> op, ok |-> ok, msg |-> msg, run |-> "none", tools |-> <<>>]

\* the entry of a strategy invocation: also how its external tool ended
MethodOp(op, o) ==
  [op |-> op, ok |-> o.ok, msg |-> o.msg, run |-> o.run, tools |-> o.tools]

\* return (success, message, path)
Return(success, message, path) ==
  /\ cd_pc' = "ret"
  /\ cd_res' = <<success, message, path>>

\* whether input_path.exists() raises OSError (it passes on every error of
\* stat() but "no such file": no permission to search the folder, a name
\* that is too long), for a file that is there or not: either can happen
ExistsRaises == BOOLEAN

\* if not input_path.exists(): return False, "Archivo no encontrado: ...", ""
\* (the test stands outside the try block)
CD_Exists ==
  /\ cd_pc = "exists"
  /\ \E raises \in ExistsRaises :
       IF raises
         THEN /\ cd_pc' = "raised"
              /\ cd_ops' = Append(cd_ops, Op("exists", FALSE, "OSError"))
              /\ UNCHANGED cd_res
         ELSE /\ cd_ops' = Append(cd_ops, Op("exists", ~input_missing(fs, cd_in), ""))
              /\ IF input_missing(fs, cd_in)
                   THEN Return(FALSE, "Archivo no encontrado", NoPath)
                   ELSE cd_pc' = "size" /\ UNCHANGED cd_res
  /\ UNCHANGED <<cd_log, pc, fs, html, cd_in, cd_req, cd_out, cd_routine, cd_k,
                 upvars, uivars, zipvars, sessvars>>

\* whether input_path.stat() raises OSError (an I/O or permission error of
\* the file system): either can happen
StatRaises == BOOLEAN

\* if input_path.stat().st_size > self.max_file_size: return False, ...
\* then output_path is resolved
CD_Size ==
  /\ cd_pc = "size"
  /\ \E raises \in StatRaises :
     IF ~Exists(fs, cd_in) \/ raises
       THEN \* stat() raises OSError, outside the try block
            /\ cd_pc' = "raised"
            /\ cd_ops' = Append(cd_ops, Op("stat", FALSE, ""))
            /\ UNCHANGED <<cd_out, cd_res>>
       ELSE /\ cd_ops' = Append(cd_ops, Op("stat", ~TooLarge(fs[cd_in].bytes), ""))
            /\ IF TooLarge(fs[cd_in].bytes)
                 THEN Return(FALSE, "Archivo demasiado grande", NoPath)
                      /\ UNCHANGED cd_out
                 ELSE /\ cd_pc' = "dispatch"
                      /\ cd_out' = OutputPathFor(cd_in, cd_req)
                      /\ UNCHANGED cd_res
  /\ UNCHANGED <<cd_log, pc, fs, html, cd_in, cd_req, cd_routine, cd_k, upvars, uivars, zipvars,
                 sessvars>>

\* extension = input_path.suffix.lower() and the if/elif chain on it
CD_Dispatch ==
  /\ cd_pc = "dispatch"
  /\ LET routine == RoutineOf(lower(cd_in.ext))
     IN  /\ cd_ops' = Append(cd_ops, Op("suffix", routine # "none", ""))
         /\ IF routine = "none"
              THEN Return(FALSE, "Formato no soportado", NoPath)
                   /\ UNCHANGED <<cd_routine, cd_k>>
              ELSE /\ cd_pc' = "loop"
                   /\ cd_routine' = routine
                   /\ cd_k' = 1
                   /\ UNCHANGED cd_res
  /\ UNCHANGED <<cd_log, pc, fs, html, cd_in, cd_req, cd_out, upvars, uivars, zipvars,
                 sessvars>>

\* `success, message = method(input_path, output_path)` overwrites what the
\* method before returned: of the earlier steps it stays known which they
\* were and whether they passed
Forget(ops) ==
  [k \in 1..Len(ops) |-> [ops[k] EXCEPT !.msg = "", !.run = "none", !.tools = <<>>]]

\* one iteration of `for method in methods` of the selected routine (the
\* single call of a one-method routine), and what convert_document makes of
\* the routine's (success, message) when the routine returns
CD_Method ==
  /\ cd_pc = "loop"
  /\ LET method == MethodsOf(cd_routine)[cd_k]
     IN  \E o \in Invoke(method, fs, html, cd_in, cd_out) :
           /\ cd_ops' = Append(Forget(cd_ops), MethodOp(method, o))
           /\ fs' = o.fs
           /\ html' = o.html
           /\ IF StopsAt(o.ok)
                THEN Return(TRUE, o.msg, cd_out) /\ UNCHANGED cd_k
                ELSE IF cd_k = Len(MethodsOf(cd_routine))
                  THEN Return(FALSE, ExhaustedMessage(cd_routine, o.msg), NoPath)
                       /\ UNCHANGED cd_k
                  ELSE cd_k' = cd_k + 1 /\ UNCHANGED <<cd_pc, cd_res>>
  /\ UNCHANGED <<cd_log, pc, cd_in, cd_req, cd_out, cd_routine, upvars, uivars, zipvars,
                 sessvars>>

(***************************************************************************)
(* A direct call converter.convert_document(input_path, output_path) on a  *)
(* path that exists or not, and its return to the caller.                  *)
(***************************************************************************)
DirectCall ==
  /\ pc = "idle"
  /\ \E ext \in Suffixes, present \in BOOLEAN, size \in Sizes,
        req \in RequestedOutputs :
       /\ fs' = IF present
                  THEN WriteFile(fs, DirectInput(ext),
                                 [data |-> 1, via |-> "input", bytes |-> size])
                  ELSE fs
       /\ Call(DirectInput(ext), req)
  /\ pc' = "direct"
  /\ UNCHANGED <<cd_log, html, upvars, uivars, zipvars, sessvars>>

DirectReturn ==
  /\ pc = "direct"
  /\ cd_pc = "ret"
  /\ cd_log' = Append(cd_log, [input |-> cd_in, res |-> cd_res])
  /\ pc' = "direct_done"
  /\ UNCHANGED <<fs, html, cdvars, upvars, uivars, zipvars, sessvars>>

\* the exception of a guard leaves convert_document: the caller gets no tuple
DirectRaise ==
  /\ pc = "direct"
  /\ cd_pc = "raised"
  /\ cd_log' = Append(cd_log, [input |-> cd_in, res |-> NoResult])
  /\ pc' = "direct_raised"
  /\ UNCHANGED <<fs, html, cdvars, upvars, uivars, zipvars, sessvars>>

(***************************************************************************)
(* process_uploaded_files, reached from main's "Iniciar Conversión" button *)
(* (main calls it only with a non-empty list).                             *)
(***************************************************************************)
\* the output name "N/A" of a history entry of a failed file
NotAvailable == [stem |-> "N/A", ext |-> ""]

\* temp_input_path and temp_output_path of the file at index k
temp_input_path(k) == JoinPath("up", uploaded_files[k].name)

temp_output_path(k) == JoinPath("up", PdfName(uploaded_files[k].name.stem))

\* the entries written into documentos_convertidos.zip: zipf.write(path, name)
\* for every collected file that still exists
BundleOf(files, disk) ==
  LET kept == SelectSeq(files, LAMBDA f : Exists(disk, f.path))
  IN  [k \in 1..Len(kept) |-> [name |-> kept[k].name, content |-> disk[kept[k].path]]]


\* whether open(temp_input_path, 'wb') and f.write(...) go through or raise
\* OSError (no space left in the temporary directory): either can happen
StagingWrites == {"written", "raises"}

\* reversed(st.session_state.conversion_history[-10:])
HistoryView(history) ==
  LET n == Len(history)
      m == IF n > 10 THEN 10 ELSE n
  IN  [k \in 1..m |-> history[n + 1 - k]]

\* whether the file behind a download control is written and read, or
\* zipfile / open raise on the way: either can happen
BundleWrites == {"written", "raises"}

\* a log that puts the newest entry first
AppendHistory_newest_first(history, entry) == <<entry>> \o history

\* st.session_state.conversion_history.append(entry)
AppendHistory(history, entry) == Append(history, entry)

\* the button handler of main, and process_uploaded_files up to its loop
UploadStartFrom(batches) ==
  /\ pc = "idle"
  /\ \E files \in batches : uploaded_files' = files
  /\ i' = 1
  /\ successful_conversions' = 0
  /\ converted_files' = <<>>
  /\ conversion_results' = <<>>
  /\ pc' = "upload_stage"
  /\ UNCHANGED <<cd_log, fs, html, cdvars, conversion_history, downloads, signal, offered,
                 zipvars, sessvars>>

UploadStart == UploadStartFrom(UploadBatches)

\* top of the loop body: the upload is written to temp_dir under its own
\* name and convert_document is called on it
UploadStage ==
  /\ pc = "upload_stage"
  /\ fs' = WriteFile(fs, temp_input_path(i),
                     [data |-> i, via |-> "upload", bytes |-> uploaded_files[i].size])
  /\ Call(temp_input_path(i), temp_output_path(i))
  /\ pc' = "upload_convert"
  /\ UNCHANGED <<cd_log, html, upvars, uivars, zipvars, sessvars>>

\* the staging write raises: it stands before the try block, so the exception
\* leaves the loop and process_uploaded_files; only the TemporaryDirectory
\* block ends on the way out
UploadStageRaises ==
  /\ pc = "upload_stage"
  /\ "raises" \in StagingWrites
  /\ fs' = RemoveTree(fs, {"up"})
  /\ pc' = "upload_crashed"
  /\ shown' = <<>>
  /\ UNCHANGED <<cd_log, html, cdvars, upvars, uivars, zipvars, runs>>

\* rest of the loop body once convert_document returned: history, results,
\* counters, and the finally block that unlinks the staged input
UploadRecord ==
  /\ pc = "upload_convert"
  /\ cd_pc = "ret"
  /\ LET success == cd_res[1]
         message == cd_res[2]
         pdf_path == cd_res[3]
         output_file == PdfName(uploaded_files[i].name.stem)
     IN  /\ conversion_history' =
              AppendHistory(conversion_history,
                     [input |-> uploaded_files[i].name,
                      output |-> IF success THEN output_file ELSE NotAvailable,
                      success |-> success, message |-> message])
         /\ conversion_results' =
              Append(conversion_results,
                     [original_name |-> uploaded_files[i].name,
                      pdf_name |-> output_file, success |-> success,
                      message |-> message,
                      pdf_path |-> IF success THEN pdf_path ELSE NoPath])
         /\ successful_conversions' =
              IF success THEN successful_conversions + 1 ELSE successful_conversions
         /\ converted_files' =
              IF success /\ pdf_path # NoPath /\ Exists(fs, pdf_path)
                THEN Append(converted_files, [path |-> pdf_path, name |-> output_file])
                ELSE converted_files
  /\ fs' = IF Exists(fs, temp_input_path(i)) THEN Unlink(fs, temp_input_path(i)) ELSE fs
  /\ cd_log' = Append(cd_log, [input |-> cd_in, res |-> cd_res])
  /\ EndCall
  /\ i' = i + 1
  /\ pc' = IF i = Len(uploaded_files) THEN "upload_download" ELSE "upload_stage"
  /\ UNCHANGED <<html, uploaded_files, downloads, signal, offered, zipvars,
                 sessvars>>

\* the except branch of the loop body, taken when convert_document raised:
\* a failure entry in the history, nothing in conversion_results, then the
\* finally block that unlinks the staged input
UploadExcept ==
  /\ pc = "upload_convert"
  /\ cd_pc = "raised"
  /\ conversion_history' =
       AppendHistory(conversion_history,
              [input |-> uploaded_files[i].name, output |-> NotAvailable,
               success |-> FALSE, message |-> "Error procesando"])
  /\ fs' = IF Exists(fs, temp_input_path(i)) THEN Unlink(fs, temp_input_path(i)) ELSE fs
  /\ cd_log' = Append(cd_log, [input |-> cd_in, res |-> NoResult])
  /\ EndCall
  /\ i' = i + 1
  /\ pc' = IF i = Len(uploaded_files) THEN "upload_download" ELSE "upload_stage"
  /\ UNCHANGED <<html, uploaded_files, successful_conversions, conversion_results,
                 uivars, zipvars, sessvars>>

\* after the loop: the download section (its bundle branch in a try whose
\* except shows "Error creando ZIP" in place of the control), the end of the
\* TemporaryDirectory block, the final summary, and the rest of main: the
\* history tab
UploadDownload ==
  /\ pc = "upload_download"
  /\ \E w \in BundleWrites :
       LET zip_failed == successful_conversions > 1 /\ w = "raises"
       IN  /\ downloads' = IF zip_failed THEN {}
                           ELSE upload_download_controls(successful_conversions)
           /\ offered' =
                IF successful_conversions > 0 /\ ~zip_failed
                  THEN IF successful_conversions = 1
                         THEN <<[name |-> converted_files[1].name,
                                 content |-> fs[converted_files[1].path]]>>
                         ELSE BundleOf(converted_files, fs)
                  ELSE <<>>
  /\ signal' = IF successful_conversions > 0 THEN "success" ELSE "error"
  /\ fs' = RemoveTree(fs, {"up"})
  /\ pc' = "upload_done"
  /\ shown' = HistoryView(conversion_history)
  /\ UNCHANGED <<cd_log, html, cdvars, upvars, converted_files, zipvars, runs>>

\* the single-file branch opens converted_files[0]['path'] in no try: when
\* that raises, the exception leaves process_uploaded_files and main, with
\* no download control and no summary
UploadDownloadRaises ==
  /\ pc = "upload_download"
  /\ successful_conversions = 1
  /\ "raises" \in BundleWrites
  /\ fs' = RemoveTree(fs, {"up"})
  /\ pc' = "upload_crashed"
  /\ shown' = <<>>
  /\ UNCHANGED <<cd_log, html, cdvars, upvars, uivars, zipvars, runs>>

(***************************************************************************)
(* process_zip_file and process_zip_folder, reached from main's "Procesar  *)
(* Carpeta ZIP" button.                                                    *)
(***************************************************************************)
\* the entries an archive is made of: two of the same name in different
\* folders, a supported one in a subfolder, an unsupported one at the root
ZipEntryList ==
  <<[dir |-> "", stem |-> "a", ext |-> ".txt"],
    [dir |-> "sub", stem |-> "a", ext |-> ".txt"],
    [dir |-> "sub", stem |-> "b", ext |-> ".docx"],
    [dir |-> "", stem |-> "c", ext |-> ".md"]>>

\* the archives: sets of at most MaxEntries entries (by index)
Archives == {A \in SUBSET (1..Len(ZipEntryList)) : Cardinality(A) <= MaxEntries}

\* where extractall puts entry e under the TemporaryDirectory of process_zip_folder
ExtractedPath(e) ==
  [dir |-> IF ZipEntryList[e].dir = "" THEN "zx" ELSE "zx/sub",
   stem |-> ZipEntryList[e].stem, ext |-> ZipEntryList[e].ext]

SubFolder == [dir |-> "zx", stem |-> "sub", ext |-> ""]

\* zip_ref.extractall(temp_dir): the files, and the folders they are in
ExtractAll(disk, A) ==
  LET files == [p \in {ExtractedPath(e) : e \in A} |->
                  [data |-> CHOOSE e \in A : ExtractedPath(e) = p,
                   via |-> "extract", bytes |-> max_file_size]]
      dirs == IF \E e \in A : ZipEntryList[e].dir # ""
                THEN (SubFolder :> [data |-> 0, via |-> "dir", bytes |-> 0])
                ELSE <<>>
  IN  files @@ dirs @@ disk

\* extractall(temp_dir) that raises at member `bad` of A after the members B:
\* B is extracted, the folder of the bad member is made, and of its file
\* there is nothing, an empty file or a part (bad = 0: the archive cannot be
\* read at all)
ExtractUpTo(disk, B, bad, part) ==
  LET dirs == IF bad # 0 /\ ZipEntryList[bad].dir # ""
                THEN (SubFolder :> [data |-> 0, via |-> "dir", bytes |-> 0])
                ELSE <<>>
      file == IF bad # 0 /\ part # "absent"
                THEN (ExtractedPath(bad) :>
                        [data |-> bad, via |-> "extract",
                         bytes |-> IF part = "empty" THEN 0 ELSE 1])
                ELSE <<>>
  IN  file @@ dirs @@ ExtractAll(disk, B)

\* Path.is_file()
is_file(disk, p) == Exists(disk, p) /\ disk[p].via # "dir"

\* the test of the rglob loop
Matches(disk, p) == is_file(disk, p) /\ lower(p.ext) \in supported_formats

\* pdf_output_path of process_zip_folder (an output_dir of "" is None)
pdf_output_path(dir, file_path) ==
  IF dir # "" THEN JoinPath(dir, PdfName(file_path.stem))
  ELSE JoinPath(file_path.dir, PdfName(file_path.stem))

\* results[key] = value on a dict kept in insertion order
DictSet(d, key, value) ==
  IF \E k \in 1..Len(d) : d[k].name = key
    THEN [k \in 1..Len(d) |-> IF d[k].name = key THEN [name |-> key, res |-> value]
                                                  ELSE d[k]]
    ELSE Append(d, [name |-> key, res |-> value])

ZipProcessing == [stem |-> "ZIP Processing", ext |-> ""]

\* process_zip_file writes the upload into its temp_dir and calls
\* process_zip_folder(zip_path, temp_dir), which extracts the archive into a
\* TemporaryDirectory of its own; an unreadable archive raises there
\* process_zip_folder up to its loop, on a disk that holds the archive:
\* extractall(temp_dir), or the except branch when the archive is unreadable
\* (what extractall wrote before it raised stays until the
\* TemporaryDirectory is left)
ZipFolderBegin(A, readable, disk) ==
  /\ archive' = A
  /\ IF readable
       THEN /\ fs' = ExtractAll(disk, A)
            /\ walk' = {ExtractedPath(e) : e \in A}
                         \cup (IF \E e \in A : ZipEntryList[e].dir # ""
                                 THEN {SubFolder} ELSE {})
            /\ results' = <<>>
       ELSE /\ \E B \in SUBSET A, bad \in A \cup {0},
                    part \in {"absent", "empty", "partial"} :
                 /\ bad \notin B
                 /\ bad = 0 => (B = {} /\ part = "absent")
                 /\ fs' = ExtractUpTo(disk, B, bad, part)
            /\ walk' = {}
            /\ results' = <<[name |-> ZipProcessing,
                             res |-> <<FALSE, "Error procesando ZIP", NoPath>>]>>

\* the output_dir arguments of a direct call of process_zip_folder
OutputDirs == {"", "out"}

\* a direct call converter.process_zip_folder(zip_path, output_dir), with
\* output_dir omitted or given
ZipFolderCall ==
  /\ pc = "idle"
  /\ \E A \in Archives, readable \in BOOLEAN, d \in OutputDirs :
       /\ output_dir' = d
       /\ ZipFolderBegin(A, readable,
                         WriteFile(fs, [dir |-> "in", stem |-> "docs", ext |-> ".zip"],
                                   [data |-> 0, via |-> "input", bytes |-> 1]))
  /\ pc' = "zip_walk"
  /\ UNCHANGED <<cd_log, html, cdvars, upvars, uivars, recurse, sessvars>>

ZipStartFrom(archives) ==
  /\ pc = "idle"
  /\ \E A \in archives, readable \in BOOLEAN, r \in BOOLEAN :
       /\ recurse' = r
       /\ output_dir' = "zt"
       /\ ZipFolderBegin(A, readable,
                         WriteFile(fs, [dir |-> "zt", stem |-> "docs", ext |-> ".zip"],
                                   [data |-> 0, via |-> "upload", bytes |-> 1]))
  /\ converted_files' = <<>>
  /\ pc' = "zip_walk"
  /\ UNCHANGED <<cd_log, html, cdvars, upvars, downloads, signal, offered,
                 sessvars>>

ZipStart == ZipStartFrom(Archives)

\* zip_path.write_bytes(...) of process_zip_file raises: it stands in no try,
\* so the exception leaves process_zip_file and main before
\* process_zip_folder is called; only the TemporaryDirectory block ends
ZipStageRaises ==
  /\ pc = "idle"
  /\ "raises" \in StagingWrites
  /\ pc' = "zip_crashed"
  /\ shown' = <<>>
  /\ UNCHANGED <<cd_log, fs, html, cdvars, upvars, uivars, zipvars, runs>>

\* an iteration of the rglob loop on a path that is no file or has no
\* supported suffix
ZipSkip ==
  /\ pc = "zip_walk"
  /\ \E p \in walk :
       /\ ~Matches(fs, p)
       /\ walk' = walk \ {p}
  /\ UNCHANGED <<cd_log, pc, fs, html, cdvars, upvars, uivars, archive, recurse, output_dir, results,
                 sessvars>>

\* an iteration on a supported file: convert_document(file_path, pdf_output_path)
ZipConvert ==
  /\ pc = "zip_walk"
  /\ \E p \in walk :
       /\ Matches(fs, p)
       /\ walk' = walk \ {p}
       /\ Call(p, pdf_output_path(output_dir, p))
  /\ pc' = "zip_convert"
  /\ UNCHANGED <<cd_log, fs, html, upvars, uivars, archive, recurse, output_dir, results,
                 sessvars>>

\* results[file_path.name] = (success, message, pdf_path)
ZipRecord ==
  /\ pc = "zip_convert"
  /\ cd_pc = "ret"
  /\ results' = DictSet(results, NameOf(cd_in), cd_res)
  /\ cd_log' = Append(cd_log, [input |-> cd_in, res |-> cd_res])
  /\ EndCall
  /\ pc' = "zip_walk"
  /\ UNCHANGED <<fs, html, upvars, uivars, archive, recurse, output_dir, walk, sessvars>>

\* convert_document raised inside the loop: the except of process_zip_folder,
\* which encloses extractall and the whole loop, ends the loop and adds the
\* 'ZIP Processing' entry to the results gathered so far
ZipExcept ==
  /\ pc = "zip_convert"
  /\ cd_pc = "raised"
  /\ results' = DictSet(results, ZipProcessing, <<FALSE, "Error procesando ZIP", NoPath>>)
  /\ walk' = {}
  /\ cd_log' = Append(cd_log, [input |-> cd_in, res |-> NoResult])
  /\ EndCall
  /\ pc' = "zip_walk"
  /\ UNCHANGED <<fs, html, upvars, uivars, archive, recurse, output_dir, sessvars>>

\* end of process_zip_folder: its TemporaryDirectory is removed and the
\* results go to the caller, process_zip_file or the direct caller
ZipFolderReturn ==
  /\ pc = "zip_walk"
  /\ walk = {}
  /\ fs' = RemoveTree(fs, {"zx", "zx/sub"})
  /\ pc' = IF output_dir = "zt" THEN "zip_report" ELSE "zip_folder_done"
  /\ UNCHANGED <<cd_log, html, cdvars, upvars, uivars, zipvars, sessvars>>

\* the successes of a results dict, as process_zip_file collects them
CollectZip(d, disk) ==
  LET good == SelectSeq(d, LAMBDA e : e.res[1] /\ e.res[3] # NoPath
                                      /\ Exists(disk, e.res[3]))
  IN  [k \in 1..Len(good) |-> [path |-> good[k].res[3],
                                name |-> PdfName(good[k].name.stem)]]

\* number of entries of a results dict that are successes
Successful(d) == Len(SelectSeq(d, LAMBDA e : e.res[1]))

\* rest of process_zip_file: per-entry lines, the download section, the end
\* of its TemporaryDirectory block
ZipReport ==
  /\ pc = "zip_report"
  /\ converted_files' = CollectZip(results, fs)
  /\ downloads' = zip_download_controls(Successful(results))
  /\ offered' = IF Successful(results) > 0
                  THEN BundleOf(CollectZip(results, fs), fs) ELSE <<>>
  /\ signal' = IF Successful(results) > 0 THEN "success" ELSE "error"
  /\ fs' = RemoveTree(fs, {"zt"})
  /\ pc' = "zip_done"
  /\ shown' = HistoryView(conversion_history)
  /\ UNCHANGED <<cd_log, html, cdvars, upvars, zipvars, runs>>

\* the bundle of process_zip_file is written and read in no try: when that
\* raises, the exception leaves process_zip_file and main after the
\* per-entry lines, with no download control and no summary
ZipReportRaises ==
  /\ pc = "zip_report"
  /\ Successful(results) > 0
  /\ "raises" \in BundleWrites
  /\ converted_files' = CollectZip(results, fs)
  /\ fs' = RemoveTree(fs, {"zt"})
  /\ pc' = "zip_crashed"
  /\ shown' = <<>>
  /\ UNCHANGED <<cd_log, html, cdvars, upvars, downloads, signal, offered, zipvars, runs>>

(***************************************************************************)
(* The specification.                                                      *)
(***************************************************************************)
vars == <<pc, fs, html, cdvars, cd_log, upvars, uivars, zipvars, sessvars>>

Next ==
  \/ DirectCall
  \/ DirectReturn
  \/ DirectRaise
  \/ CD_Exists
  \/ CD_Size
  \/ CD_Dispatch
  \/ CD_Method
  \/ UploadStart
  \/ UploadStage
  \/ UploadStageRaises
  \/ UploadRecord
  \/ UploadExcept
  \/ UploadDownload
  \/ UploadDownloadRaises
  \/ ZipStart
  \/ ZipStageRaises
  \/ ZipFolderCall
  \/ ZipSkip
  \/ ZipConvert
  \/ ZipRecord
  \/ ZipExcept
  \/ ZipFolderReturn
  \/ ZipReport
  \/ ZipReportRaises

Spec == Init /\ [][Next]_vars

\* the handlers run synchronously in one thread and every external call
\* returns or times out (timeout=30, timeout=60): a step that can be taken is
\* taken
SpecFair == Spec /\ WF_vars(Next)

(***************************************************************************)
(* A session: Streamlit runs main again after every interaction, with      *)
(* st.session_state kept. The batches of a session are small ones, so that *)
(* several runs can follow each other.                                     *)
(***************************************************************************)
MaxRuns == 2

SessionBatches ==
  {<<f>> : f \in {u \in UploadInputs : u.name = [stem |-> "a", ext |-> ".txt"]}}

SessionArchives == {{1}, {4}}

SessionUploadStart == UploadStartFrom(SessionBatches)

SessionZipStart == ZipStartFrom(SessionArchives)

\* the next run of the script, no button pressed: the locals and widgets of
\* the last run are gone, the session state and the files on disk stay, and
\* main ends with the history tab
NewRun ==
  /\ pc \in {"upload_done", "upload_crashed", "zip_done", "zip_crashed"}
  /\ runs < MaxRuns
  /\ runs' = runs + 1
  /\ pc' = "idle"
  /\ cd_pc' = "none"
  /\ cd_in' = NoPath
  /\ cd_req' = NoPath
  /\ cd_out' = NoPath
  /\ cd_routine' = "none"
  /\ cd_k' = 0
  /\ cd_ops' = <<>>
  /\ cd_res' = NoResult
  /\ cd_log' = <<>>
  /\ uploaded_files' = <<>>
  /\ i' = 0
  /\ successful_conversions' = 0
  /\ converted_files' = <<>>
  /\ conversion_results' = <<>>
  /\ downloads' = {}
  /\ signal' = "none"
  /\ offered' = <<>>
  /\ archive' = {}
  /\ recurse' = TRUE
  /\ walk' = {}
  /\ results' = <<>>
  /\ output_dir' = ""
  /\ shown' = HistoryView(conversion_history)
  /\ UNCHANGED <<fs, html, conversion_history>>

\* the run of main with the "Limpiar Historial" button pressed (the button
\* is shown when the history is not empty): the history tab renders the
\* entries, then st.session_state.conversion_history = [] and st.rerun(),
\* which ends this run
ClearHistory ==
  /\ pc = "idle"
  /\ conversion_history # <<>>
  /\ shown' = HistoryView(conversion_history)
  /\ conversion_history' = <<>>
  /\ pc' = "rerun"
  /\ UNCHANGED <<fs, html, cdvars, cd_log, uploaded_files, i,
                 successful_conversions, conversion_results, uivars, zipvars, runs>>

\* the run of main that st.rerun() asked for: no button pressed, the history
\* tab is rendered from the session state
Rerun ==
  /\ pc = "rerun"
  /\ shown' = HistoryView(conversion_history)
  /\ pc' = "idle"
  /\ UNCHANGED <<fs, html, cdvars, cd_log, upvars, uivars, zipvars, runs>>

SessionNext ==
  \/ SessionUploadStart
  \/ UploadStage
  \/ UploadStageRaises
  \/ CD_Exists
  \/ CD_Size
  \/ CD_Dispatch
  \/ CD_Method
  \/ UploadRecord
  \/ UploadExcept
  \/ UploadDownload
  \/ UploadDownloadRaises
  \/ SessionZipStart
  \/ ZipStageRaises
  \/ ZipSkip
  \/ ZipConvert
  \/ ZipRecord
  \/ ZipExcept
  \/ ZipFolderReturn
  \/ ZipReport
  \/ ZipReportRaises
  \/ NewRun
  \/ ClearHistory
  \/ Rerun

SpecSession == Init /\ [][SessionNext]_vars

(***************************************************************************)
(* Properties.                                                             *)
(***************************************************************************)
\* the strategy invocations of the current convert_document call, in order
Calls == SelectSeq(cd_ops, LAMBDA o : o.op \notin {"exists", "stat", "suffix"})

IsPrefix(a, b) == Len(a) <= Len(b) /\ \A j \in 1..Len(a) : a[j] = b[j]

\* C1: in _convert_docx and _convert_doc_enhanced the strategies are invoked
\* in list order, none is invoked after one returned success, and the call
\* returns that first success (its message, the output path).
C1_FirstSuccessWins ==
  cd_routine \in {"_convert_docx", "_convert_doc_enhanced"} =>
    LET calls == Calls
        n == Len(calls)
        order == IF cd_routine = "_convert_docx"
                   THEN <<"_convert_with_pandoc_wkhtml", "_convert_with_python_docx">>
                   ELSE <<"_convert_doc_with_online_service",
                          "_convert_doc_with_advanced_text_extraction",
                          "_convert_doc_with_python_docx_fallback",
                          "_convert_doc_with_fallback">>
    IN  /\ IsPrefix([j \in 1..n |-> calls[j].op], order)
        /\ \A j \in 1..(n - 1) : ~calls[j].ok
        /\ (n > 0 /\ calls[n].ok) =>
             (cd_pc # "loop" /\ cd_res = <<TRUE, calls[n].msg, cd_out>>)

\* C1 witness: the second of the four .doc strategies succeeded after the
\* first failed, and the call returned with the last two never invoked
C1_Witness ==
  /\ cd_pc = "ret"
  /\ cd_routine = "_convert_doc_enhanced"
  /\ Len(Calls) = 2
  /\ ~Calls[1].ok
  /\ Calls[2].ok

\* C2: an existing input within the size cap whose lower-cased suffix is
\* none of .docx, .doc, .rtf, .txt, .odt is answered (False, "Formato no
\* soportado", "") and no strategy is invoked.
C2_UnsupportedRejected ==
  (/\ cd_pc = "ret"
   /\ cd_in \in DOMAIN fs
   /\ fs[cd_in].bytes <= 209715200
   /\ lower(cd_in.ext) \notin {".docx", ".doc", ".rtf", ".txt", ".odt"})
  => (cd_res = <<FALSE, "Formato no soportado", NoPath>> /\ Calls = <<>>)

\* C2 witness: an existing a.md of exactly the cap was rejected as unsupported
C2_Witness ==
  /\ pc = "direct"
  /\ cd_pc = "ret"
  /\ cd_in.ext = ".md"
  /\ cd_in \in DOMAIN fs
  /\ fs[cd_in].bytes = max_file_size
  /\ cd_res[2] = "Formato no soportado"

C3_State ==
  (cd_pc = "ret" /\ cd_in \in DOMAIN fs) =>
    /\ fs[cd_in].bytes > 209715200 =>
         /\ cd_res = <<FALSE, "Archivo demasiado grande", NoPath>>
         /\ cd_res[2] \notin {"Archivo no encontrado", "Formato no soportado"}
         /\ [j \in 1..Len(cd_ops) |-> cd_ops[j].op] = <<"exists", "stat">>
    /\ fs[cd_in].bytes = 209715200 => cd_res[2] # "Archivo demasiado grande"

\* C3: an existing input of more than 200 MiB is answered (False, "Archivo
\* demasiado grande", ""), a message of its own, after the existence and size
\* checks alone, whatever its suffix; the two checks leave the file system
\* as it was; an input of exactly 200 MiB passes the size guard.
C3_OversizeRejected ==
  /\ []C3_State
  /\ [][(cd_pc \in {"exists", "size"}) => UNCHANGED fs]_vars

\* C3 witness: an oversize input with an unsupported suffix was rejected as too large
C3_Witness ==
  /\ cd_pc = "ret"
  /\ cd_in \in DOMAIN fs
  /\ fs[cd_in].bytes = 209715201
  /\ cd_in.ext = ".md"
  /\ cd_res[2] = "Archivo demasiado grande"

\* C4: a call of convert_document on a path that does not exist ends with
\* the tuple (False, "Archivo no encontrado", "") after the existence check
\* alone: no size check, no dispatch, no strategy, whatever the suffix.
C4_MissingRejected ==
  (cd_pc \in {"ret", "raised"} /\ cd_in \notin DOMAIN fs) =>
    /\ cd_res = <<FALSE, "Archivo no encontrado", NoPath>>
    /\ cd_ops = <<Op("exists", FALSE, "")>>

\* every strategy of the selected routine was invoked and failed
AllStrategiesFailed ==
  /\ cd_pc = "ret"
  /\ cd_routine # "none"
  /\ Len(Calls) = (IF cd_routine = "_convert_docx" THEN 2
                   ELSE IF cd_routine = "_convert_doc_enhanced" THEN 4 ELSE 1)
  /\ \A j \in 1..Len(Calls) : ~Calls[j].ok

\* C5 as stated: for each of the five supported suffixes, when every strategy
\* failed the call fails with "Todos los métodos de conversión fallaron".
C5_Original ==
  (AllStrategiesFailed /\ lower(cd_in.ext) \in {".docx", ".doc", ".rtf", ".txt", ".odt"})
  => (~cd_res[1] /\ cd_res[2] = "Todos los métodos de conversión fallaron")

\* C5 amended: when every strategy failed the call fails with an empty path
\* and a message by suffix: "Todos los métodos de conversión fallaron" for
\* .docx, "No se pudo convertir el archivo DOC. Intente guardarlo como DOCX."
\* for .doc, and for .rtf, .txt and .odt the failure message of the one
\* Pandoc strategy itself.
C5_ExhaustionMessage ==
  (AllStrategiesFailed /\ lower(cd_in.ext) \in {".docx", ".doc", ".rtf", ".txt", ".odt"})
  => /\ ~cd_res[1]
     /\ cd_res[3] = NoPath
     /\ lower(cd_in.ext) = ".docx" =>
          cd_res[2] = "Todos los métodos de conversión fallaron"
     /\ lower(cd_in.ext) = ".doc" =>
          cd_res[2] = "No se pudo convertir el archivo DOC. Intente guardarlo como DOCX."
     /\ lower(cd_in.ext) \in {".rtf", ".txt", ".odt"} =>
          /\ cd_res[2] = Calls[1].msg
          /\ cd_res[2] \in {"Pandoc error", "Timeout en conversión con Pandoc",
                            "Error con Pandoc"}

\* C5 witness: all four strategies of a .doc input failed
C5_Witness ==
  /\ AllStrategiesFailed
  /\ cd_in.ext = ".doc"
  /\ Len(Calls) = 4
  /\ ~cd_res[1]

\* successes of the batch that just ended, counted from the per-file results
UploadSuccesses == {k \in 1..Len(conversion_results) : conversion_results[k].success}

ZipSuccesses == {k \in 1..Len(results) : results[k].res[1]}

\* C6 as stated: at the end of an upload batch and of an archive batch alike,
\* 0 successes show the failure signal and no download, exactly 1 success a
\* single-file download only, 2 or more a bundle download only.
C6_Original ==
  (pc \in {"upload_done", "zip_done"}) =>
    LET n == IF pc = "upload_done" THEN Cardinality(UploadSuccesses)
                                   ELSE Cardinality(ZipSuccesses)
    IN  /\ n = 0 => (signal = "error" /\ downloads = {})
        /\ n = 1 => downloads = {"single"}
        /\ n >= 2 => downloads = {"bundle"}
        /\ ~({"single", "bundle"} \subseteq downloads)

\* C6 amended: at the end of an upload batch, 0 successes show the failure
\* signal and no download, exactly 1 a single-file download only, 2 or more a
\* bundle download only, or no download at all when the bundle could not be
\* written; at the end of an archive batch, 0 successes show the failure
\* signal and no download, and 1 or more a bundle download only; the two
\* downloads are never offered together.
C6_DownloadThresholds ==
  /\ pc = "upload_done" =>
       LET n == Cardinality(UploadSuccesses)
       IN  /\ n = 0 => (signal = "error" /\ downloads = {})
           /\ n = 1 => downloads = {"single"}
           /\ n >= 2 => \/ downloads = {"bundle"}
                       \/ (downloads = {} /\ offered = <<>> /\ signal = "success")
  /\ pc = "zip_done" =>
       LET n == Cardinality(ZipSuccesses)
       IN  /\ n = 0 => (signal = "error" /\ downloads = {})
           /\ n >= 1 => downloads = {"bundle"}
  /\ ~({"single", "bundle"} \subseteq downloads)

\* C6 witness: an archive batch ended with exactly one success and a bundle
C6_Witness ==
  /\ pc = "zip_done"
  /\ Cardinality(ZipSuccesses) = 1
  /\ downloads = {"bundle"}
  /\ Len(offered) = 1

\* the archive entry extracted to path p
EntryOf(p) == CHOOSE e \in archive : ExtractedPath(e) = p

\* the calls of convert_document of the archive batch that returned success
ZipConverted == {k \in 1..Len(cd_log) : cd_log[k].res[1]}

InBundle(name, data) ==
  \E j \in 1..Len(offered) : offered[j].name = name /\ offered[j].content.data = data

\* C7: when more than one file of a batch converted, the bundle holds for
\* every successful input an entry <stem>.pdf whose content is the output
\* produced for that input.
C7_BundleHoldsEveryOutput ==
  /\ (pc = "upload_done" /\ Cardinality(UploadSuccesses) > 1) =>
       \A k \in UploadSuccesses :
         InBundle(PdfName(uploaded_files[k].name.stem), k)
  /\ (pc = "zip_done" /\ Cardinality(ZipConverted) > 1) =>
       \A k \in ZipConverted :
         InBundle(PdfName(cd_log[k].input.stem), EntryOf(cd_log[k].input))

\* C8: after the loop of a batch every successfully converted input has a
\* result file of its own, holding the output produced for it: no later
\* conversion of the batch has overwritten or reused it.
C8_OwnResultFile ==
  /\ pc = "upload_download" =>
       \A k \in UploadSuccesses :
         /\ conversion_results[k].pdf_path \in DOMAIN fs
         /\ fs[conversion_results[k].pdf_path].data = k
  /\ pc = "zip_report" =>
       \A k \in ZipConverted :
         /\ cd_log[k].res[3] \in DOMAIN fs
         /\ fs[cd_log[k].res[3]].data = EntryOf(cd_log[k].input)

\* the entries of the archive with a supported suffix
SupportedEntries ==
  {e \in archive : lower(ZipEntryList[e].ext) \in {".docx", ".doc", ".rtf", ".txt", ".odt"}}

\* the archive was opened and extracted
Readable == \A k \in 1..Len(results) : results[k].name # ZipProcessing

\* C9: a readable archive with N supported entries yields exactly N per-file
\* results, one for each supported entry.
C9_OneResultPerSupportedEntry ==
  (pc = "zip_report" /\ Readable) =>
    /\ Len(results) = Cardinality(SupportedEntries)
    /\ \A e \in SupportedEntries :
         \E k \in 1..Len(results) :
           results[k].name = [stem |-> ZipEntryList[e].stem, ext |-> ZipEntryList[e].ext]

\* C10: with recursion into subdirectories disabled, no entry inside a
\* subfolder is converted or gets a result.
C10_RootOnlyWhenNotRecursive ==
  (pc \in {"zip_report", "zip_done"} /\ ~recurse) =>
    \A k \in 1..Len(cd_log) : cd_log[k].input.dir = "zx"


\* whether the returned map holds the aggregate failure entry
HasAggregate(d) == \E k \in 1..Len(d) : d[k].name = ZipProcessing

\* C11: once process_zip_folder has returned, a map that holds the aggregate
\* failure entry 'ZIP Processing' holds nothing else (an archive that could
\* not be extracted included): no per-entry result stands next to it.
C11_AggregateEntryAlone ==
  (pc \in {"zip_report", "zip_done"} /\ HasAggregate(results)) => Len(results) = 1


\* C12: a strategy that reports success has left an output file of nonzero
\* size, and so every success returned by convert_document names a non-empty
\* output file.
C12_SuccessMeansNonEmptyOutput ==
  /\ \A j \in 1..Len(Calls) :
       (Calls[j].ok /\ cd_pc \in {"loop", "ret"})
         => (Exists(fs, cd_out) /\ fs[cd_out].bytes > 0)
  /\ (cd_pc = "ret" /\ cd_res[1])
       => (Exists(fs, cd_res[3]) /\ fs[cd_res[3]].bytes > 0)


\* the directories the pipeline creates with tempfile
TempDirs == {"up", "zt", "zx", "zx/sub"}

\* the positions at which a pipeline run has ended, normally or not
RunEnded == pc \in {"direct_done", "direct_raised", "upload_done", "upload_crashed",
                    "zip_done", "zip_crashed"}

\* C13: after a pipeline run has ended, on whatever path, no temporary file
\* or directory is left: no intermediate HTML of _create_enhanced_pdf and no
\* file under a temporary directory.
C13_NoTemporaryLeft ==
  RunEnded => (html = 0 /\ \A p \in DOMAIN fs : p.dir \notin TempDirs)


\* the inputs convert_document was called on in this run
Converted == {cd_log[k].input : k \in 1..Len(cd_log)}

\* C14: an error raised while one file of a batch is processed stays with
\* that file: the file loop is never left by an exception, and every file
\* of the batch is still processed (every upload has its entry when the
\* upload batch ends, every supported file of an extracted archive was
\* handed to convert_document when process_zip_folder returns).
C14_ErrorsStayWithTheFile ==
  /\ pc = "upload_crashed" => Len(conversion_history) = Len(uploaded_files)
  /\ pc = "upload_done" => Len(conversion_history) = Len(uploaded_files)
  /\ (pc = "zip_report" /\ cd_log # <<>>)
       => \A e \in SupportedEntries : ExtractedPath(e) \in Converted


\* the successful call was answered by the informational fallback
ByFallback == Len(Calls) > 0 /\ Calls[Len(Calls)].op = "_convert_doc_with_fallback"

\* C15: a success of the informational fallback shows in the tuple returned
\* by convert_document: the message is InformationalMessage exactly when the
\* fallback produced the file, no other strategy succeeds with that message,
\* and the fallback answers only after the online service, the text
\* extraction and the python-docx reading have each been tried and failed.
C15_FallbackDistinguishable ==
  (cd_pc = "ret" /\ cd_res[1]) =>
    /\ (cd_res[2] = InformationalMessage) <=> ByFallback
    /\ ByFallback =>
         /\ Len(Calls) = 4
         /\ \A j \in 1..3 :
              /\ Calls[j].op = _convert_doc_enhanced[j]
              /\ Calls[j].op # "_convert_doc_with_fallback"
              /\ ~Calls[j].ok

\* convert_document has returned the success of the informational fallback
C15_Witness ==
  cd_pc = "ret" /\ cd_res[1] /\ ByFallback /\ cd_res[2] = InformationalMessage


\* inside or at the end of an upload batch, between two files
BetweenUploads == pc \in {"upload_stage", "upload_download", "upload_done"}

\* inside or at the end of an archive batch, between two files
BetweenZipFiles == pc \in {"zip_walk", "zip_report", "zip_done", "zip_crashed"}

\* C16: every file a batch has processed has added exactly one entry to the
\* activity log, with the file's name, the output name or "N/A", the success
\* flag and the message of its conversion; this holds for uploaded files and
\* for the files of an archive alike.
C16_OneLogEntryPerFile ==
  /\ BetweenUploads =>
       /\ Len(conversion_history) = Len(cd_log)
       /\ \A k \in 1..Len(cd_log) :
            /\ conversion_history[k].input = uploaded_files[k].name
            /\ conversion_history[k].success = cd_log[k].res[1]
            /\ conversion_history[k].output =
                 IF cd_log[k].res[1] THEN PdfName(uploaded_files[k].name.stem)
                                     ELSE NotAvailable
            /\ cd_log[k].res # NoResult
                 => conversion_history[k].message = cd_log[k].res[2]
  /\ BetweenZipFiles => Len(conversion_history) = Len(cd_log)


\* C17 as stated: whatever the user does (batches, archive batches, viewing
\* or clearing the history), every step leaves the entries of the activity
\* log in place and the log at least as long as it was.
C17_Original == [][IsPrefix(conversion_history, conversion_history')]_vars

\* C17: every step other than the user's "Limpiar Historial" leaves the
\* entries of the activity log in place and only adds after them; the
\* clearing empties the log; a run that only shows the history tab changes
\* nothing of it, and neither does an archive batch.
C17_AppendOnlyUntilCleared ==
  /\ [][\/ IsPrefix(conversion_history, conversion_history')
        \/ (ClearHistory /\ conversion_history' = <<>>)]_vars
  /\ [][(NewRun \/ output_dir = "zt") => conversion_history' = conversion_history]_vars

\* two batches of the session have each added their entry and the history
\* tab shows both
C17_Witness ==
  /\ pc = "idle"
  /\ runs = 2
  /\ Len(conversion_history) = 2
  /\ conversion_history[1] # conversion_history[2]
  /\ shown = HistoryView(conversion_history)


\* an upload batch is under way or has ended, normally or not
InUpload == pc \in {"upload_stage", "upload_convert", "upload_download", "upload_done",
                    "upload_crashed"}

\* C18: in a batch every file is converted exactly once, one file at a time
\* and in input order: the calls of convert_document made so far are those
\* for the files before the current one, in order, the call under way is the
\* one for the current file, no file is converted twice, and when the batch
\* has ended every file of it has been converted.
C18_EachFileOnceInOrder ==
  /\ InUpload =>
       /\ Len(cd_log) <= Len(uploaded_files)
       /\ \A k \in 1..Len(cd_log) : cd_log[k].input = temp_input_path(k)
       /\ pc = "upload_convert" => (Len(cd_log) = i - 1 /\ cd_in = temp_input_path(i))
       /\ pc \in {"upload_done", "upload_crashed"} => Len(cd_log) = Len(uploaded_files)
  /\ (BetweenZipFiles \/ pc = "zip_convert") =>
       /\ \A j, k \in 1..Len(cd_log) : cd_log[j].input = cd_log[k].input => j = k
       /\ (pc \in {"zip_report", "zip_done"} /\ cd_log # <<>>)
            => \A e \in SupportedEntries : ExtractedPath(e) \in Converted


\* the strategy the current call of convert_document invoked last
LastCall == Calls[Len(Calls)]

\* the rendering tool of a strategy (pandoc, wkhtmltopdf) timed out or exited
\* with a nonzero status
RendererFailed(c) == c.run \in {"timeout", "nonzero"}

\* a text-extraction tool of a strategy (catdoc, strings) timed out or exited
\* with a nonzero status
ExtractorFailed(c) == \E k \in 1..Len(c.tools) : c.tools[k] \in {"timeout", "nonzero"}

\* an external tool of a strategy timed out or exited with a nonzero status
ToolFailed(c) == RendererFailed(c) \/ ExtractorFailed(c)

\* after a strategy that failed, the call stands before the next strategy of
\* the list, or, after the last one, has returned failure
FailedSoftly ==
  IF Len(Calls) < Len(MethodsOf(cd_routine))
    THEN cd_pc = "loop" /\ cd_k = Len(Calls) + 1
    ELSE cd_pc = "ret" /\ ~cd_res[1]

\* the next strategy of the list is the next thing the call does, and once
\* the call has returned the batch goes on with its next file
GoesOn ==
  /\ [][(cd_pc = "loop" /\ Calls # <<>>) =>
          /\ Len(Calls') = Len(Calls) + 1
          /\ LastCall'.op = MethodsOf(cd_routine)[Len(Calls) + 1]]_vars
  /\ [][(cd_pc = "ret" /\ Calls # <<>>) =>
          /\ pc = "upload_convert" =>
               /\ i' = i + 1
               /\ pc' = IF i = Len(uploaded_files) THEN "upload_download"
                                                   ELSE "upload_stage"
          /\ pc = "zip_convert" => (pc' = "zip_walk" /\ walk' = walk)]_vars

\* C19 as stated: a strategy one of whose external tools (pandoc,
\* wkhtmltopdf, catdoc, strings) timed out or exited nonzero returns failure
\* and raises nothing; the next strategy of the list, if there is one, is
\* the next thing convert_document does, else convert_document returns
\* failure; and the batch then goes on with its next file.
C19_Original ==
  /\ []((Calls # <<>> /\ cd_pc # "none" /\ ToolFailed(LastCall)) =>
         /\ ~LastCall.ok
         /\ cd_pc \in {"loop", "ret"}
         /\ FailedSoftly)
  /\ GoesOn

\* C19: a timeout or nonzero exit of an external tool raises nothing. When
\* the tool is the renderer (pandoc, wkhtmltopdf) the strategy returns
\* failure. When it is a text-extraction tool (catdoc, strings) the strategy
\* goes on with its next way of extracting and returns success or failure.
\* After a strategy that returned failure the next strategy of the list, if
\* there is one, is the next thing convert_document does, else
\* convert_document returns failure; after one that returned success
\* convert_document returns success; and the batch then goes on with its
\* next file.
C19_ToolFailureIsSoft ==
  /\ []((Calls # <<>> /\ cd_pc # "none" /\ ToolFailed(LastCall)) =>
         /\ RendererFailed(LastCall) => ~LastCall.ok
         /\ cd_pc \in {"loop", "ret"}
         /\ IF LastCall.ok THEN cd_pc = "ret" /\ cd_res[1] ELSE FailedSoftly)
  /\ GoesOn

\* the only strategy of the first file of an upload batch timed out, the
\* batch went on to its second file, a .doc, and there the online service
\* failed and the text-extraction strategy succeeded although catdoc timed
\* out
C19_Witness ==
  /\ pc = "upload_convert"
  /\ i = 2
  /\ conversion_history[1].message = "Timeout en conversión con Pandoc"
  /\ cd_pc = "ret"
  /\ Len(Calls) = 2
  /\ LastCall.op = "_convert_doc_with_advanced_text_extraction"
  /\ LastCall.tools[1] = "timeout"
  /\ LastCall.ok


\* C20: a batch that has started reaches its final summary, with every file
\* of it converted to success or failure: an upload batch with one ended
\* call of convert_document and one log entry per uploaded file, an archive
\* batch with its report.
C20_BatchCompletes ==
  /\ (pc = "upload_stage") ~>
       (pc = "upload_done" /\ Len(cd_log) = Len(uploaded_files)
                           /\ Len(conversion_history) = Len(uploaded_files))
  /\ (pc = "zip_walk") ~> (pc = "zip_done")


\* C21: a tuple returned by convert_document has a path exactly when its
\* success flag is true: every rejection and every failure of the routine
\* returns the empty path, and a success returns the output path that was
\* requested, or <input dir>/<stem>.pdf when none was requested. The same
\* holds of every tuple a caller has received.
C21_PathIffSuccess ==
  /\ cd_pc = "ret" =>
       /\ (cd_res[3] # NoPath) <=> cd_res[1]
       /\ cd_res[1] =>
            cd_res[3] = IF cd_req = NoPath
                          THEN [dir |-> cd_in.dir, stem |-> cd_in.stem, ext |-> ".pdf"]
                          ELSE cd_req
  /\ \A k \in 1..Len(cd_log) : (cd_log[k].res[3] # NoPath) <=> cd_log[k].res[1]

\* convert_document has returned a success for a call with a requested
\* output path that is not the default one next to the input
C21_Witness ==
  /\ cd_pc = "ret"
  /\ cd_res[1]
  /\ cd_req # NoPath
  /\ cd_res[3] = cd_req
  /\ cd_req # [dir |-> cd_in.dir, stem |-> cd_in.stem, ext |-> ".pdf"]


\* process_zip_folder has returned its results to its caller
ZipFolderReturned == pc \in {"zip_report", "zip_folder_done"}

\* C22: when process_zip_folder has returned, the path of every successful
\* result names a file that exists, with output_dir given and with
\* output_dir omitted alike.
C22_ResultFilesOutliveTheCall ==
  ZipFolderReturned =>
    \A k \in 1..Len(results) : results[k].res[1] => Exists(fs, results[k].res[3])


\* C23: when process_uploaded_files reaches its download section, the
\* success counter is the number of outputs collected in converted_files and
\* each of them exists; so with a counter of 1 exactly one output is
\* collected and offered, and with a larger counter the bundle, when it is
\* written, holds as many files as the counter says.
C23_CounterMatchesCollected ==
  /\ pc \in {"upload_download", "upload_done"}
       => successful_conversions = Len(converted_files)
  /\ pc = "upload_download"
       => \A k \in 1..Len(converted_files) : Exists(fs, converted_files[k].path)
  /\ (pc = "upload_done" /\ successful_conversions = 1)
       => (downloads = {"single"} /\ Len(offered) = 1)
  /\ (pc = "upload_done" /\ successful_conversions > 1 /\ downloads # {})
       => (downloads = {"bundle"} /\ Len(offered) = successful_conversions)

\* the download section is reached with two successes and two collected files
C23_Witness ==
  /\ pc = "upload_download"
  /\ successful_conversions = 2
  /\ Len(converted_files) = 2

=============================================================================
